---- MODULE Spec2Model ----
(***************************************************************************)
(* Lifecycle coordinator of the converged EloqKV / EloqSQL server.         *)
(*                                                                         *)
(* The model follows main(), SignalHandler() and CleanupComponents() of    *)
(* the converged binary statement by statement.  Every statement that      *)
(* reads or writes state shared between main and a signal handler is one   *)
(* step, so that a handler can run between any two of them.  A handler     *)
(* runs either on the main thread (main is then suspended until the        *)
(* handler returns) or on another thread of the process (it then           *)
(* interleaves with main).                                                 *)
(*                                                                         *)
(* Labels are the source line numbers: "m146" is line 146 of main, "c89"   *)
(* line 89 of CleanupComponents; a handler that is not running is "idle".  *)
(***************************************************************************)
EXTENDS Integers, Sequences, FiniteSets, TLC

\* Number of signal deliveries considered in one execution.
MaxDeliveries == 2

VARIABLES
    build,                \* compile-time switches of the binary
    pc,                   \* position of main and of each signal's handler
    hthread,              \* thread on which each signal's handler runs
    delivered,            \* number of signals delivered so far
    g_shutdown_requested, \* std::atomic<bool> g_shutdown_requested
    g_init_state,         \* struct InitState g_init_state
    kvh,                  \* key-value handles: unique_ptrs, raw pointers, objects
    sqlt,                 \* g_eloqsql_thread and the routine it runs
    ds,                   \* the data substrate singleton
    return_code,          \* int return_code of main
    exit_status,          \* <<>> while the process runs, <<status>> afterwards
    quit_asked,           \* the server has been asked to quit
    hist                  \* record of the calls made so far (observation only)

vars == <<build, pc, hthread, delivered, g_shutdown_requested, g_init_state,
          kvh, sqlt, ds, return_code, exit_status, quit_asked, hist>>

Signals == {"SIGINT", "SIGTERM"}

Threads == {"main", "other"}

\* Callers of CleanupComponents: main (line 285) and a handler (line 77).
Runners == {"main"} \cup Signals

\* Build configurations: ELOQ_MODULE_ELOQKV and ELOQ_MODULE_ELOQSQL, at least
\* one of them defined.  BRPC_WITH_GLOG is defined (glog_error_logging.h).
Builds == {b \in [kv : BOOLEAN, sql : BOOLEAN] : b.kv \/ b.sql}

InitState == [data_substrate_init |-> FALSE,
              eloqkv_init |-> FALSE,
              eloqsql_thread_started |-> FALSE,
              eloqkv_service_ptr |-> "null"]

Init ==
    /\ build \in Builds
    /\ pc = [r \in Runners |-> IF r = "main" THEN "m146" ELSE "idle"]
    /\ hthread = [s \in Signals |-> "main"]
    /\ delivered = 0
    /\ g_shutdown_requested = FALSE
    /\ g_init_state = InitState
    /\ kvh = [service |-> "null",      \* g_eloqkv_service
              server |-> "null",       \* g_eloqkv_server
              local_ptr |-> "null",    \* eloqkv_service_ptr of main
              options |-> "null",      \* eloqkv_options.redis_service
              svc |-> "none",          \* the RedisServiceImpl object
              owner |-> "none"]        \* who owns the RedisServiceImpl object
    /\ sqlt = [joinable |-> FALSE, routine |-> "none", shutdown_req |-> FALSE]
    /\ ds = [state |-> "Uninitialized", enabled |-> {}, registered |-> {}]
    /\ return_code = 0
    /\ exit_status = <<>>
    /\ quit_asked = FALSE
    /\ hist = [nShutdown |-> 0,         \* calls of DataSubstrate::Shutdown
               nStop |-> 0,             \* calls of RedisServiceImpl::Stop
               nMysqlShutdown |-> 0,    \* calls of shutdown_mysqld
               nJoin |-> 0,             \* joins of g_eloqsql_thread
               nLogShutdown |-> 0,      \* calls of ShutdownGoogleLogging
               nHandlerCleanup |-> 0,   \* handler calls of CleanupComponents
               mainCleanup |-> "no",    \* main has called CleanupComponents
               \* per caller: stage of its last teardown call, and the last
               \* block of CleanupComponents it has finished
               lastStage |-> [r \in Runners |-> 0],
               blocksDone |-> [r \in Runners |-> 0],
               dsInit |-> "none",       \* result of DataSubstrate::Init
               dsStartOk |-> FALSE,     \* ds.Start() returned true
               kvInitOk |-> FALSE,      \* the service's Init returned true
               kvStartCalled |-> FALSE, \* line 245 was executed
               srvStartCalled |-> FALSE,\* line 258 was executed
               failedAt |-> "none",     \* the startup step that failed
               crashed |-> FALSE,       \* the process was killed
               armed |-> {},            \* InitState fields main has armed
               stopUnowned |-> FALSE]   \* Stop was called on a service that
                                        \* g_eloqkv_service did not own

----
\* The process is alive until main returns or the process is killed.
Alive == exit_status = <<>>

HandlerActive(s) == pc[s] # "idle"

\* A handler that runs on the main thread suspends main until it returns.
MainSuspended == \E s \in Signals : HandlerActive(s) /\ hthread[s] = "main"

CanRun(r) == Alive /\ (r = "main" => ~MainSuspended)

MainAt(l) == CanRun("main") /\ pc["main"] = l

Goto(r, l) == pc' = [pc EXCEPT ![r] = l]

\* The process is killed (SIGSEGV on a bad dereference, SIGABRT from
\* std::terminate): nothing runs afterwards.
Crash(status) ==
    /\ exit_status' = <<status>>
    /\ hist' = [hist EXCEPT !.crashed = TRUE]
    /\ UNCHANGED <<build, pc, hthread, delivered, g_shutdown_requested,
                   g_init_state, kvh, sqlt, ds, return_code, quit_asked>>

----
(***************************************************************************)
(* The data substrate (data_substrate.h): lifecycle contract.              *)
(***************************************************************************)
DS_Init(d) == [d EXCEPT !.state = "Initialized"]

DS_EnableEngine(d, kind) == [d EXCEPT !.enabled = @ \cup {kind}]

DS_RegisterEngine(d, kind) == [d EXCEPT !.registered = @ \cup {kind}]

DS_AllRegistered(d) == d.enabled \subseteq d.registered

DS_BeginWait(d) ==
    IF d.state = "Initialized" THEN [d EXCEPT !.state = "AwaitingRegistration"]
    ELSE d

DS_Start(d) == IF d.state = "Stopped" THEN d ELSE [d EXCEPT !.state = "Running"]

DS_Shutdown(d) == [d EXCEPT !.state = "Stopped"]

----
(***************************************************************************)
(* Control flow of main under the compile-time switches.                   *)
(***************************************************************************)
\* After line 153: the EloqSQL block, else the EloqKV block, else Step 3.
AfterStep1 == IF build.sql THEN "m165" ELSE IF build.kv THEN "m188" ELSE "m221"

\* After line 177.
AfterSqlLaunch == IF build.kv THEN "m188" ELSE "m221"

\* After line 237: the EloqKV second phase, else straight to the cleanup label.
AfterStep4 == IF build.kv THEN "m245" ELSE "m285"

\* The first statement of CleanupComponents (line 87).
CleanupEntry == "c87"

\* goto cleanup without the assignment return_code = -1.
GotoCleanup_KeepReturnCode(step) ==
    /\ return_code' = return_code
    /\ Goto("main", "m285")
    /\ hist' = [hist EXCEPT !.failedAt = step]

\* goto cleanup (lines 204-205, 224-225, 233-234, 247-248, 262-263).
GotoCleanup(step) ==
    /\ return_code' = 0 - 1
    /\ Goto("main", "m285")
    /\ hist' = [hist EXCEPT !.failedAt = step]

----
(***************************************************************************)
(* main, Step 1 (lines 144-155).                                           *)
(***************************************************************************)
\* main_SubstrateInit without the return at line 149: a failed Init falls
\* through to line 151.
main_SubstrateInit_FallThrough ==
    /\ MainAt("m146")
    /\ \E ok \in BOOLEAN :
         IF ok
         THEN /\ ds' = DS_Init(ds)
              /\ hist' = [hist EXCEPT !.dsInit = "ok"]
              /\ Goto("main", "m151")
         ELSE /\ ds' = ds
              /\ hist' = [hist EXCEPT !.dsInit = "fail", !.failedAt = "ds_init"]
              /\ Goto("main", "m151")
    /\ UNCHANGED <<build, hthread, delivered, g_shutdown_requested,
                   g_init_state, kvh, sqlt, return_code, exit_status,
                   quit_asked>>

main_SubstrateInit ==
    /\ MainAt("m146")
    /\ \E ok \in BOOLEAN :
         IF ok
         THEN /\ ds' = DS_Init(ds)
              /\ hist' = [hist EXCEPT !.dsInit = "ok"]
              /\ Goto("main", "m151")
         ELSE /\ ds' = ds
              /\ hist' = [hist EXCEPT !.dsInit = "fail", !.failedAt = "ds_init"]
              /\ Goto("main", "m148")
    /\ UNCHANGED <<build, hthread, delivered, g_shutdown_requested,
                   g_init_state, kvh, sqlt, return_code, exit_status,
                   quit_asked>>

\* Lines 147-149: google::ShutdownGoogleLogging(); return -1;
main_SubstrateInitFailed ==
    /\ MainAt("m148")
    /\ hist' = [hist EXCEPT !.nLogShutdown = @ + 1]
    /\ exit_status' = << 0 - 1 >>
    /\ Goto("main", "done")
    /\ UNCHANGED <<build, hthread, delivered, g_shutdown_requested,
                   g_init_state, kvh, sqlt, ds, return_code, quit_asked>>

\* Line 151.
main_SetSubstrateInit ==
    /\ MainAt("m151")
    /\ g_init_state' = [g_init_state EXCEPT !.data_substrate_init = TRUE]
    /\ hist' = [hist EXCEPT !.armed = @ \cup {"data_substrate_init"}]
    /\ Goto("main", AfterStep1)
    /\ UNCHANGED <<build, hthread, delivered, g_shutdown_requested, kvh, sqlt,
                   ds, return_code, exit_status, quit_asked>>

(***************************************************************************)
(* main, Step 2, EloqSQL (lines 159-177).                                  *)
(***************************************************************************)
\* Line 165.
main_EnableEloqSql ==
    /\ MainAt("m165")
    /\ ds' = DS_EnableEngine(ds, "EloqSql")
    /\ Goto("main", "m170")
    /\ UNCHANGED <<build, hthread, delivered, g_shutdown_requested,
                   g_init_state, kvh, sqlt, return_code, exit_status,
                   quit_asked, hist>>

\* Lines 170-175: g_eloqsql_thread = std::thread(...mysqld_main...).
main_LaunchEloqSqlThread ==
    /\ MainAt("m170")
    /\ sqlt' = [sqlt EXCEPT !.joinable = TRUE, !.routine = "running"]
    /\ Goto("main", "m176")
    /\ UNCHANGED <<build, hthread, delivered, g_shutdown_requested,
                   g_init_state, kvh, ds, return_code, exit_status,
                   quit_asked, hist>>

\* Line 176.
main_SetEloqSqlThreadStarted ==
    /\ MainAt("m176")
    /\ g_init_state' = [g_init_state EXCEPT !.eloqsql_thread_started = TRUE]
    /\ hist' = [hist EXCEPT !.armed = @ \cup {"eloqsql_thread_started"}]
    /\ Goto("main", AfterSqlLaunch)
    /\ UNCHANGED <<build, hthread, delivered, g_shutdown_requested, kvh, sqlt,
                   ds, return_code, exit_status, quit_asked>>

\* The relational main routine registers the engine from its own thread.
mysqld_RegisterEngine ==
    /\ Alive
    /\ sqlt.routine = "running"
    /\ "EloqSql" \notin ds.registered
    /\ ds' = DS_RegisterEngine(ds, "EloqSql")
    /\ UNCHANGED <<build, pc, hthread, delivered, g_shutdown_requested,
                   g_init_state, kvh, sqlt, return_code, exit_status,
                   quit_asked, hist>>

\* Lines 171-174: mysqld_main returns (after shutdown_mysqld, or on its own
\* with an error) and the thread function ends.
mysqld_Return ==
    /\ Alive
    /\ sqlt.routine = "running"
    /\ sqlt' = [sqlt EXCEPT !.routine = "returned"]
    /\ UNCHANGED <<build, pc, hthread, delivered, g_shutdown_requested,
                   g_init_state, kvh, ds, return_code, exit_status,
                   quit_asked, hist>>

(***************************************************************************)
(* main, Step 2, EloqKV first phase (lines 179-209).                       *)
(***************************************************************************)
\* Line 188.
main_EnableEloqKv ==
    /\ MainAt("m188")
    /\ ds' = DS_EnableEngine(ds, "EloqKv")
    /\ Goto("main", "m194")
    /\ UNCHANGED <<build, hthread, delivered, g_shutdown_requested,
                   g_init_state, kvh, sqlt, return_code, exit_status,
                   quit_asked, hist>>

\* Line 194: g_eloqkv_server = std::make_unique<brpc::Server>().
main_MakeServer ==
    /\ MainAt("m194")
    /\ kvh' = [kvh EXCEPT !.server = "srv"]
    /\ Goto("main", "m195")
    /\ UNCHANGED <<build, hthread, delivered, g_shutdown_requested,
                   g_init_state, sqlt, ds, return_code, exit_status,
                   quit_asked, hist>>

\* Lines 195-196: g_eloqkv_service = std::make_unique<RedisServiceImpl>(...).
main_MakeService ==
    /\ MainAt("m195")
    /\ kvh' = [kvh EXCEPT !.service = "svc", !.svc = "alive",
                          !.owner = "g_eloqkv_service"]
    /\ Goto("main", "m197")
    /\ UNCHANGED <<build, hthread, delivered, g_shutdown_requested,
                   g_init_state, sqlt, ds, return_code, exit_status,
                   quit_asked, hist>>

\* Line 197: eloqkv_service_ptr = g_eloqkv_service.get().
main_GetServicePtr ==
    /\ MainAt("m197")
    /\ kvh' = [kvh EXCEPT !.local_ptr = kvh.service]
    /\ Goto("main", "m202")
    /\ UNCHANGED <<build, hthread, delivered, g_shutdown_requested,
                   g_init_state, sqlt, ds, return_code, exit_status,
                   quit_asked, hist>>

\* Line 202 dereferences both unique_ptrs.
KvInitDefined == kvh.service # "null" /\ kvh.server # "null"

\* Lines 202-206: g_eloqkv_service->Init(*g_eloqkv_server); a successful Init
\* registers the engine with the substrate.
main_KvInit ==
    /\ MainAt("m202")
    /\ KvInitDefined
    /\ \E ok \in BOOLEAN :
         IF ok
         THEN /\ ds' = DS_RegisterEngine(ds, "EloqKv")
              /\ hist' = [hist EXCEPT !.kvInitOk = TRUE]
              /\ Goto("main", "m207")
              /\ UNCHANGED return_code
         ELSE /\ ds' = ds
              /\ GotoCleanup("kv_init")
    /\ UNCHANGED <<build, hthread, delivered, g_shutdown_requested,
                   g_init_state, kvh, sqlt, exit_status, quit_asked>>

\* Line 202 through a unique_ptr that a handler has reset: undefined
\* behaviour.  The process is killed, or the call returns some value.
main_KvInit_Undefined ==
    /\ MainAt("m202")
    /\ ~KvInitDefined
    /\ \/ Crash(139)
       \/ /\ \E ok \in BOOLEAN :
               IF ok
               THEN /\ hist' = [hist EXCEPT !.kvInitOk = TRUE]
                    /\ Goto("main", "m207")
                    /\ UNCHANGED return_code
               ELSE GotoCleanup("kv_init")
          /\ UNCHANGED <<build, hthread, delivered, g_shutdown_requested,
                         g_init_state, kvh, sqlt, ds, exit_status, quit_asked>>

\* Line 207.
main_SetEloqKvInit ==
    /\ MainAt("m207")
    /\ g_init_state' = [g_init_state EXCEPT !.eloqkv_init = TRUE]
    /\ hist' = [hist EXCEPT !.armed = @ \cup {"eloqkv_init"}]
    /\ Goto("main", "m208")
    /\ UNCHANGED <<build, hthread, delivered, g_shutdown_requested, kvh, sqlt,
                   ds, return_code, exit_status, quit_asked>>

\* The InitState fields that main has armed, after it has stored pointer p
\* in eloqkv_service_ptr.
ArmedWithPtr(p) ==
    IF p # "null" THEN hist.armed \cup {"eloqkv_service_ptr"} ELSE hist.armed

\* Line 208.
main_SetServicePtr ==
    /\ MainAt("m208")
    /\ g_init_state' = [g_init_state EXCEPT !.eloqkv_service_ptr = kvh.local_ptr]
    /\ hist' = [hist EXCEPT !.armed = ArmedWithPtr(kvh.local_ptr)]
    /\ Goto("main", "m221")
    /\ UNCHANGED <<build, hthread, delivered, g_shutdown_requested, kvh, sqlt,
                   ds, return_code, exit_status, quit_asked>>

(***************************************************************************)
(* main, Steps 3 and 4 (lines 218-237).                                    *)
(***************************************************************************)
\* Lines 221-227, the wait returns true.
main_WaitRegistered ==
    /\ MainAt("m221")
    /\ DS_AllRegistered(ds)
    /\ ds' = DS_BeginWait(ds)
    /\ Goto("main", "m231")
    /\ UNCHANGED <<build, hthread, delivered, g_shutdown_requested,
                   g_init_state, kvh, sqlt, return_code, exit_status,
                   quit_asked, hist>>

\* main_WaitTimedOut with a partial start: after the timeout main goes on to
\* ds.Start() with the engines that have registered.
main_WaitTimedOut_PartialStart ==
    /\ MainAt("m221")
    /\ ~DS_AllRegistered(ds)
    /\ ds' = DS_BeginWait(ds)
    /\ Goto("main", "m231")
    /\ UNCHANGED <<build, hthread, delivered, g_shutdown_requested,
                   g_init_state, kvh, sqlt, return_code, exit_status,
                   quit_asked, hist>>

\* Lines 221-226, the wait times out.
main_WaitTimedOut ==
    /\ MainAt("m221")
    /\ ~DS_AllRegistered(ds)
    /\ ds' = DS_BeginWait(ds)
    /\ GotoCleanup("wait")
    /\ UNCHANGED <<build, hthread, delivered, g_shutdown_requested,
                   g_init_state, kvh, sqlt, exit_status, quit_asked>>

\* main_SubstrateStart with the failure handled at the call site: return_code
\* is set and main goes straight to line 288, past CleanupComponents.
main_SubstrateStart_InlineExit ==
    /\ MainAt("m231")
    /\ \E ok \in BOOLEAN :
         IF ok
         THEN /\ ds' = DS_Start(ds)
              /\ hist' = [hist EXCEPT !.dsStartOk = TRUE]
              /\ Goto("main", AfterStep4)
              /\ UNCHANGED return_code
         ELSE /\ ds' = ds
              /\ return_code' = 0 - 1
              /\ Goto("main", "m288")
              /\ hist' = [hist EXCEPT !.failedAt = "ds_start"]
    /\ UNCHANGED <<build, hthread, delivered, g_shutdown_requested,
                   g_init_state, kvh, sqlt, exit_status, quit_asked>>

\* main_SubstrateStart without the test of Start()'s result: main goes on to
\* the second phase whatever Start() returned.
main_SubstrateStart_IgnoreResult ==
    /\ MainAt("m231")
    /\ \E ok \in BOOLEAN :
         /\ ds' = IF ok THEN DS_Start(ds) ELSE ds
         /\ hist' = [hist EXCEPT !.dsStartOk = ok]
         /\ Goto("main", AfterStep4)
    /\ UNCHANGED <<build, hthread, delivered, g_shutdown_requested,
                   g_init_state, kvh, sqlt, return_code, exit_status,
                   quit_asked>>

\* Lines 231-237.
main_SubstrateStart ==
    /\ MainAt("m231")
    /\ \E ok \in BOOLEAN :
         IF ok
         THEN /\ ds' = DS_Start(ds)
              /\ hist' = [hist EXCEPT !.dsStartOk = TRUE]
              /\ Goto("main", AfterStep4)
              /\ UNCHANGED return_code
         ELSE /\ ds' = ds
              /\ GotoCleanup("ds_start")
    /\ UNCHANGED <<build, hthread, delivered, g_shutdown_requested,
                   g_init_state, kvh, sqlt, exit_status, quit_asked>>

(***************************************************************************)
(* main, EloqKV second phase (lines 243-270).                              *)
(***************************************************************************)
\* Line 245 calls through the raw pointer taken at line 197 and dereferences
\* g_eloqkv_server.
KvStartDefined ==
    kvh.local_ptr # "null" /\ kvh.svc = "alive" /\ kvh.server # "null"

\* Lines 245-249: eloqkv_service_ptr->Start(*g_eloqkv_server).
main_KvStart ==
    /\ MainAt("m245")
    /\ KvStartDefined
    /\ \E ok \in BOOLEAN :
         IF ok
         THEN /\ hist' = [hist EXCEPT !.kvStartCalled = TRUE]
              /\ Goto("main", "m253")
              /\ UNCHANGED return_code
         ELSE /\ return_code' = 0 - 1
              /\ Goto("main", "m285")
              /\ hist' = [hist EXCEPT !.kvStartCalled = TRUE,
                                      !.failedAt = "kv_start"]
    /\ UNCHANGED <<build, hthread, delivered, g_shutdown_requested,
                   g_init_state, kvh, sqlt, ds, exit_status, quit_asked>>

\* Line 245 when a handler has destroyed the service or reset the server.
main_KvStart_Undefined ==
    /\ MainAt("m245")
    /\ ~KvStartDefined
    /\ \/ Crash(139)
       \/ /\ \E ok \in BOOLEAN :
               IF ok
               THEN /\ hist' = [hist EXCEPT !.kvStartCalled = TRUE]
                    /\ Goto("main", "m253")
                    /\ UNCHANGED return_code
               ELSE /\ return_code' = 0 - 1
                    /\ Goto("main", "m285")
                    /\ hist' = [hist EXCEPT !.kvStartCalled = TRUE,
                                            !.failedAt = "kv_start"]
          /\ UNCHANGED <<build, hthread, delivered, g_shutdown_requested,
                         g_init_state, kvh, sqlt, ds, exit_status, quit_asked>>

\* Line 253.
main_TrackServicePtr ==
    /\ MainAt("m253")
    /\ g_init_state' = [g_init_state EXCEPT !.eloqkv_service_ptr = kvh.local_ptr]
    /\ hist' = [hist EXCEPT !.armed = ArmedWithPtr(kvh.local_ptr)]
    /\ Goto("main", "m255")
    /\ UNCHANGED <<build, hthread, delivered, g_shutdown_requested, kvh, sqlt,
                   ds, return_code, exit_status, quit_asked>>

\* Line 255: eloqkv_options.redis_service = g_eloqkv_service.release().
main_ReleaseService ==
    /\ MainAt("m255")
    /\ kvh' = [kvh EXCEPT !.options = kvh.service,
                          !.service = "null",
                          !.owner = IF kvh.service # "null" THEN "options" ELSE @]
    /\ Goto("main", "m258")
    /\ UNCHANGED <<build, hthread, delivered, g_shutdown_requested,
                   g_init_state, sqlt, ds, return_code, exit_status,
                   quit_asked, hist>>

\* Lines 258-264: g_eloqkv_server->Start(..., &eloqkv_options); the server
\* takes the service named in the options.
main_ServerStart ==
    /\ MainAt("m258")
    /\ kvh.server # "null"
    /\ kvh' = [kvh EXCEPT !.owner = IF kvh.options # "null" THEN "server" ELSE @]
    /\ \E ok \in BOOLEAN :
         IF ok
         THEN /\ hist' = [hist EXCEPT !.srvStartCalled = TRUE]
              /\ Goto("main", "m269")
              /\ UNCHANGED return_code
         ELSE /\ return_code' = 0 - 1
              /\ Goto("main", "m285")
              /\ hist' = [hist EXCEPT !.srvStartCalled = TRUE,
                                      !.failedAt = "srv_start"]
    /\ UNCHANGED <<build, hthread, delivered, g_shutdown_requested,
                   g_init_state, sqlt, ds, exit_status, quit_asked>>

\* Line 258 through a g_eloqkv_server that a handler has reset.
main_ServerStart_Undefined ==
    /\ MainAt("m258")
    /\ kvh.server = "null"
    /\ \/ Crash(139)
       \/ /\ \E ok \in BOOLEAN :
               IF ok
               THEN /\ hist' = [hist EXCEPT !.srvStartCalled = TRUE]
                    /\ Goto("main", "m269")
                    /\ UNCHANGED return_code
               ELSE /\ return_code' = 0 - 1
                    /\ Goto("main", "m285")
                    /\ hist' = [hist EXCEPT !.srvStartCalled = TRUE,
                                            !.failedAt = "srv_start"]
          /\ UNCHANGED <<build, hthread, delivered, g_shutdown_requested,
                         g_init_state, kvh, sqlt, ds, exit_status, quit_asked>>

\* Line 269: EloqKV::server_acceptor = g_eloqkv_server->GetAcceptor().
main_GetAcceptor ==
    /\ MainAt("m269")
    /\ kvh.server # "null"
    /\ Goto("main", "m279")
    /\ UNCHANGED <<build, hthread, delivered, g_shutdown_requested,
                   g_init_state, kvh, sqlt, ds, return_code, exit_status,
                   quit_asked, hist>>

\* Line 269 through a g_eloqkv_server that a handler has reset.
main_GetAcceptor_Undefined ==
    /\ MainAt("m269")
    /\ kvh.server = "null"
    /\ \/ Crash(139)
       \/ /\ Goto("main", "m279")
          /\ UNCHANGED <<build, hthread, delivered, g_shutdown_requested,
                         g_init_state, kvh, sqlt, ds, return_code, exit_status,
                         quit_asked, hist>>

(***************************************************************************)
(* main, wait for the shutdown signal (lines 277-282).                     *)
(***************************************************************************)
\* Line 279: if (g_eloqkv_server).
main_CheckServer ==
    /\ MainAt("m279")
    /\ Goto("main", IF kvh.server # "null" THEN "m280" ELSE "m285")
    /\ UNCHANGED <<build, hthread, delivered, g_shutdown_requested,
                   g_init_state, kvh, sqlt, ds, return_code, exit_status,
                   quit_asked, hist>>

\* Line 280: g_eloqkv_server->RunUntilAskedToQuit() returns once the server
\* has been asked to quit.
main_RunUntilAskedToQuit ==
    /\ MainAt("m280")
    /\ kvh.server # "null"
    /\ quit_asked
    /\ Goto("main", "m285")
    /\ UNCHANGED <<build, hthread, delivered, g_shutdown_requested,
                   g_init_state, kvh, sqlt, ds, return_code, exit_status,
                   quit_asked, hist>>

\* Line 280 on a server that a handler has destroyed, before the call or
\* while main is inside it.
main_RunUntilAskedToQuit_Undefined ==
    /\ MainAt("m280")
    /\ kvh.server = "null"
    /\ \/ Crash(139)
       \/ /\ Goto("main", "m285")
          /\ UNCHANGED <<build, hthread, delivered, g_shutdown_requested,
                         g_init_state, kvh, sqlt, ds, return_code, exit_status,
                         quit_asked, hist>>

(***************************************************************************)
(* main, the cleanup label (lines 284-291).                                *)
(***************************************************************************)
\* Line 285: call CleanupComponents().
main_CallCleanup ==
    /\ MainAt("m285")
    /\ hist' = [hist EXCEPT !.mainCleanup = "called"]
    /\ Goto("main", CleanupEntry)
    /\ UNCHANGED <<build, hthread, delivered, g_shutdown_requested,
                   g_init_state, kvh, sqlt, ds, return_code, exit_status,
                   quit_asked>>

\* Lines 286-290: google::ShutdownGoogleLogging(), then return return_code.  Destroying g_eloqsql_thread (line 60) while it is
\* joinable calls std::terminate.
main_Return ==
    /\ MainAt("m288")
    /\ hist' = [hist EXCEPT !.nLogShutdown = @ + 1]
    /\ exit_status' = IF sqlt.joinable THEN <<134>> ELSE <<return_code>>
    /\ Goto("main", "done")
    /\ UNCHANGED <<build, hthread, delivered, g_shutdown_requested,
                   g_init_state, kvh, sqlt, ds, return_code, quit_asked>>

----
(***************************************************************************)
(* CleanupComponents (lines 82-125), run by r: main or a signal's handler. *)
(***************************************************************************)
\* Where CleanupComponents returns to: line 286 of main; lines 79-80 of the
\* handler, which then returns.
CleanupReturn(r) == IF r = "main" THEN "m288" ELSE "idle"

\* The EloqSQL block placed before the EloqKV block.
AfterSubstrateStage_SqlFirst(r) ==
    IF build.sql THEN "c113" ELSE IF build.kv THEN "c96" ELSE CleanupReturn(r)

\* After the DataSubstrate stage (line 92).
AfterSubstrateStage(r) ==
    IF build.kv THEN "c96" ELSE IF build.sql THEN "c113" ELSE CleanupReturn(r)

\* After the EloqKV stage (line 109).
AfterKvStage(r) == IF build.sql THEN "c113" ELSE CleanupReturn(r)

At(r, l) == CanRun(r) /\ pc[r] = l

\* Line 87 without the test of data_substrate_init.
Cleanup_CheckSubstrate_NoFlag(r) ==
    /\ At(r, "c87")
    /\ Goto(r, "c89")
    /\ UNCHANGED <<build, hthread, delivered, g_shutdown_requested,
                   g_init_state, kvh, sqlt, ds, return_code, exit_status,
                   quit_asked, hist>>

\* Line 87.
Cleanup_CheckSubstrate(r) ==
    /\ At(r, "c87")
    /\ IF g_init_state.data_substrate_init
       THEN /\ Goto(r, "c89")
            /\ hist' = hist
       ELSE /\ Goto(r, AfterSubstrateStage(r))
            /\ hist' = [hist EXCEPT !.blocksDone[r] = 1]
    /\ UNCHANGED <<build, hthread, delivered, g_shutdown_requested,
                   g_init_state, kvh, sqlt, ds, return_code, exit_status,
                   quit_asked>>

\* Line 89: DataSubstrate::Instance().Shutdown().
Cleanup_SubstrateShutdown(r) ==
    /\ At(r, "c89")
    /\ ds' = DS_Shutdown(ds)
    /\ hist' = [hist EXCEPT !.nShutdown = @ + 1, !.lastStage[r] = 1]
    /\ Goto(r, "c91")
    /\ UNCHANGED <<build, hthread, delivered, g_shutdown_requested,
                   g_init_state, kvh, sqlt, return_code, exit_status,
                   quit_asked>>

\* Cleanup_ClearSubstrateInit without the assignment at line 91: the flag
\* stays true after the substrate has been shut down.
Cleanup_ClearSubstrateInit_KeepFlag(r) ==
    /\ At(r, "c91")
    /\ hist' = [hist EXCEPT !.blocksDone[r] = 1]
    /\ Goto(r, AfterSubstrateStage(r))
    /\ UNCHANGED <<build, hthread, delivered, g_shutdown_requested,
                   g_init_state, kvh, sqlt, ds, return_code, exit_status,
                   quit_asked>>

\* Line 91.
Cleanup_ClearSubstrateInit(r) ==
    /\ At(r, "c91")
    /\ g_init_state' = [g_init_state EXCEPT !.data_substrate_init = FALSE]
    /\ hist' = [hist EXCEPT !.blocksDone[r] = 1]
    /\ Goto(r, AfterSubstrateStage(r))
    /\ UNCHANGED <<build, hthread, delivered, g_shutdown_requested, kvh, sqlt,
                   ds, return_code, exit_status, quit_asked>>

\* Line 96.
Cleanup_CheckEloqKv(r) ==
    /\ At(r, "c96")
    /\ Goto(r, IF g_init_state.eloqkv_init
                  /\ g_init_state.eloqkv_service_ptr # "null"
               THEN "c99" ELSE "c105")
    /\ UNCHANGED <<build, hthread, delivered, g_shutdown_requested,
                   g_init_state, kvh, sqlt, ds, return_code, exit_status,
                   quit_asked, hist>>

\* Line 99 calls through g_init_state.eloqkv_service_ptr.
KvStopDefined == g_init_state.eloqkv_service_ptr # "null" /\ kvh.svc = "alive"

\* Line 99: g_init_state.eloqkv_service_ptr->Stop().
Cleanup_KvStop(r) ==
    /\ At(r, "c99")
    /\ KvStopDefined
    /\ hist' = [hist EXCEPT !.nStop = @ + 1, !.lastStage[r] = 2,
                            !.stopUnowned = @ \/ kvh.owner # "g_eloqkv_service"]
    /\ Goto(r, "c101")
    /\ UNCHANGED <<build, hthread, delivered, g_shutdown_requested,
                   g_init_state, kvh, sqlt, ds, return_code, exit_status,
                   quit_asked>>

\* Line 99 through a pointer that is null again or whose object has been
\* destroyed.
Cleanup_KvStop_Undefined(r) ==
    /\ At(r, "c99")
    /\ ~KvStopDefined
    /\ \/ Crash(139)
       \/ /\ hist' = [hist EXCEPT !.nStop = @ + 1, !.lastStage[r] = 2,
                                  !.stopUnowned = TRUE]
          /\ Goto(r, "c101")
          /\ UNCHANGED <<build, hthread, delivered, g_shutdown_requested,
                         g_init_state, kvh, sqlt, ds, return_code, exit_status,
                         quit_asked>>

\* Line 101.
Cleanup_ClearEloqKvInit(r) ==
    /\ At(r, "c101")
    /\ g_init_state' = [g_init_state EXCEPT !.eloqkv_init = FALSE]
    /\ Goto(r, "c105")
    /\ UNCHANGED <<build, hthread, delivered, g_shutdown_requested, kvh, sqlt,
                   ds, return_code, exit_status, quit_asked, hist>>

\* Line 105: g_eloqkv_service.reset() destroys the service it still holds.
Cleanup_ResetService(r) ==
    /\ At(r, "c105")
    /\ kvh' = IF kvh.service # "null"
              THEN [kvh EXCEPT !.service = "null", !.svc = "destroyed",
                               !.owner = "none"]
              ELSE kvh
    /\ Goto(r, "c106")
    /\ UNCHANGED <<build, hthread, delivered, g_shutdown_requested,
                   g_init_state, sqlt, ds, return_code, exit_status,
                   quit_asked, hist>>

\* Line 106: g_eloqkv_server.reset() destroys the server, and with it the
\* service the server has taken.
Cleanup_ResetServer(r) ==
    /\ At(r, "c106")
    /\ kvh' = IF kvh.server # "null" /\ kvh.owner = "server"
              THEN [kvh EXCEPT !.server = "null", !.svc = "destroyed",
                               !.owner = "none"]
              ELSE [kvh EXCEPT !.server = "null"]
    /\ Goto(r, "c107")
    /\ UNCHANGED <<build, hthread, delivered, g_shutdown_requested,
                   g_init_state, sqlt, ds, return_code, exit_status,
                   quit_asked, hist>>

\* Line 107.
Cleanup_ClearServicePtr(r) ==
    /\ At(r, "c107")
    /\ g_init_state' = [g_init_state EXCEPT !.eloqkv_service_ptr = "null"]
    /\ Goto(r, "c108")
    /\ UNCHANGED <<build, hthread, delivered, g_shutdown_requested, kvh, sqlt,
                   ds, return_code, exit_status, quit_asked, hist>>

\* Line 108.
Cleanup_ClearEloqKvInitAgain(r) ==
    /\ At(r, "c108")
    /\ g_init_state' = [g_init_state EXCEPT !.eloqkv_init = FALSE]
    /\ hist' = [hist EXCEPT !.blocksDone[r] = 2]
    /\ Goto(r, AfterKvStage(r))
    /\ UNCHANGED <<build, hthread, delivered, g_shutdown_requested, kvh, sqlt,
                   ds, return_code, exit_status, quit_asked>>

\* Line 113.
Cleanup_CheckEloqSql(r) ==
    /\ At(r, "c113")
    /\ IF g_init_state.eloqsql_thread_started
       THEN /\ Goto(r, "c115")
            /\ hist' = hist
       ELSE /\ Goto(r, CleanupReturn(r))
            /\ hist' = [hist EXCEPT !.blocksDone[r] = 3]
    /\ UNCHANGED <<build, hthread, delivered, g_shutdown_requested,
                   g_init_state, kvh, sqlt, ds, return_code, exit_status,
                   quit_asked>>

\* Line 115: shutdown_mysqld().
Cleanup_ShutdownMysqld(r) ==
    /\ At(r, "c115")
    /\ sqlt' = [sqlt EXCEPT !.shutdown_req = TRUE]
    /\ hist' = [hist EXCEPT !.nMysqlShutdown = @ + 1, !.lastStage[r] = 3]
    /\ Goto(r, "c117")
    /\ UNCHANGED <<build, hthread, delivered, g_shutdown_requested,
                   g_init_state, kvh, ds, return_code, exit_status,
                   quit_asked>>

\* Line 117: if (g_eloqsql_thread.joinable()).
Cleanup_CheckJoinable(r) ==
    /\ At(r, "c117")
    /\ Goto(r, IF sqlt.joinable THEN "c119" ELSE "c122")
    /\ UNCHANGED <<build, hthread, delivered, g_shutdown_requested,
                   g_init_state, kvh, sqlt, ds, return_code, exit_status,
                   quit_asked, hist>>

\* Line 119: g_eloqsql_thread.join() returns once the thread function has
\* returned.
Cleanup_Join(r) ==
    /\ At(r, "c119")
    /\ sqlt.joinable
    /\ sqlt.routine = "returned"
    /\ sqlt' = [sqlt EXCEPT !.joinable = FALSE]
    /\ hist' = [hist EXCEPT !.nJoin = @ + 1]
    /\ Goto(r, "c122")
    /\ UNCHANGED <<build, hthread, delivered, g_shutdown_requested,
                   g_init_state, kvh, ds, return_code, exit_status,
                   quit_asked>>

\* Line 119 after the other caller has joined the thread: join() throws
\* std::system_error, which nothing catches.
Cleanup_Join_NotJoinable(r) ==
    /\ At(r, "c119")
    /\ ~sqlt.joinable
    /\ Crash(134)

\* Line 122.
Cleanup_ClearEloqSqlThreadStarted(r) ==
    /\ At(r, "c122")
    /\ g_init_state' = [g_init_state EXCEPT !.eloqsql_thread_started = FALSE]
    /\ hist' = [hist EXCEPT !.blocksDone[r] = 3]
    /\ Goto(r, CleanupReturn(r))
    /\ UNCHANGED <<build, hthread, delivered, g_shutdown_requested, kvh, sqlt,
                   ds, return_code, exit_status, quit_asked>>

CleanupComponents(r) ==
    \/ Cleanup_CheckSubstrate(r)
    \/ Cleanup_SubstrateShutdown(r)
    \/ Cleanup_ClearSubstrateInit(r)
    \/ Cleanup_CheckEloqKv(r)
    \/ Cleanup_KvStop(r)
    \/ Cleanup_KvStop_Undefined(r)
    \/ Cleanup_ClearEloqKvInit(r)
    \/ Cleanup_ResetService(r)
    \/ Cleanup_ResetServer(r)
    \/ Cleanup_ClearServicePtr(r)
    \/ Cleanup_ClearEloqKvInitAgain(r)
    \/ Cleanup_CheckEloqSql(r)
    \/ Cleanup_ShutdownMysqld(r)
    \/ Cleanup_CheckJoinable(r)
    \/ Cleanup_Join(r)
    \/ Cleanup_Join_NotJoinable(r)
    \/ Cleanup_ClearEloqSqlThreadStarted(r)

----
(***************************************************************************)
(* Signals and SignalHandler (lines 68-80, installed at lines 139-140).    *)
(***************************************************************************)
\* Threads besides main exist once an engine has started its own threads.
OtherThreadExists == sqlt.routine = "running" \/ hist.kvInitOk

\* The server's run loop is asked to quit by a signal that arrives while
\* main is inside RunUntilAskedToQuit.
AsksServerToQuit == pc["main"] = "m280"

\* Lines 68-70: the operating system runs SignalHandler(s) on thread t, and
\* the handler executes compare_exchange_strong(expected = false, true).
\* A signal is blocked while its own handler runs.
Deliverable(s, t) ==
    /\ Alive
    /\ delivered < MaxDeliveries
    /\ ~HandlerActive(s)
    /\ t = "other" => OtherThreadExists

\* SignalHandler_Enter without the test of the exchange's result: every
\* delivery calls CleanupComponents.
SignalHandler_Enter_NoExchange(s, t) ==
    /\ Deliverable(s, t)
    /\ g_shutdown_requested' = TRUE
    /\ delivered' = delivered + 1
    /\ hthread' = [hthread EXCEPT ![s] = t]
    /\ quit_asked' = (quit_asked \/ AsksServerToQuit)
    /\ hist' = [hist EXCEPT !.nHandlerCleanup = @ + 1]
    /\ Goto(s, CleanupEntry)
    /\ UNCHANGED <<build, g_init_state, kvh, sqlt, ds, return_code,
                   exit_status>>

\* Lines 70-77: the exchange succeeds and the handler calls CleanupComponents.
SignalHandler_Enter(s, t) ==
    /\ Deliverable(s, t)
    /\ g_shutdown_requested = FALSE
    /\ g_shutdown_requested' = TRUE
    /\ delivered' = delivered + 1
    /\ hthread' = [hthread EXCEPT ![s] = t]
    /\ quit_asked' = (quit_asked \/ AsksServerToQuit)
    /\ hist' = [hist EXCEPT !.nHandlerCleanup = @ + 1]
    /\ Goto(s, CleanupEntry)
    /\ UNCHANGED <<build, g_init_state, kvh, sqlt, ds, return_code,
                   exit_status>>

\* Lines 70-73: the exchange fails and the handler returns at once.
SignalHandler_AlreadyRequested(s, t) ==
    /\ Deliverable(s, t)
    /\ g_shutdown_requested = TRUE
    /\ delivered' = delivered + 1
    /\ quit_asked' = (quit_asked \/ AsksServerToQuit)
    /\ UNCHANGED <<build, pc, hthread, g_shutdown_requested, g_init_state, kvh,
                   sqlt, ds, return_code, exit_status, hist>>

SignalHandler(s, t) ==
    \/ SignalHandler_Enter(s, t)
    \/ SignalHandler_AlreadyRequested(s, t)

----
main ==
    \/ main_SubstrateInit
    \/ main_SubstrateInitFailed
    \/ main_SetSubstrateInit
    \/ main_EnableEloqSql
    \/ main_LaunchEloqSqlThread
    \/ main_SetEloqSqlThreadStarted
    \/ main_EnableEloqKv
    \/ main_MakeServer
    \/ main_MakeService
    \/ main_GetServicePtr
    \/ main_KvInit
    \/ main_KvInit_Undefined
    \/ main_SetEloqKvInit
    \/ main_SetServicePtr
    \/ main_WaitRegistered
    \/ main_WaitTimedOut
    \/ main_SubstrateStart
    \/ main_KvStart
    \/ main_KvStart_Undefined
    \/ main_TrackServicePtr
    \/ main_ReleaseService
    \/ main_ServerStart
    \/ main_ServerStart_Undefined
    \/ main_GetAcceptor
    \/ main_GetAcceptor_Undefined
    \/ main_CheckServer
    \/ main_RunUntilAskedToQuit
    \/ main_RunUntilAskedToQuit_Undefined
    \/ main_CallCleanup
    \/ main_Return

Next ==
    \/ main
    \/ \E r \in Runners : CleanupComponents(r)
    \/ \E s \in Signals, t \in Threads : SignalHandler(s, t)
    \/ mysqld_RegisterEngine
    \/ mysqld_Return

Spec == Init /\ [][Next]_vars

\* mysqld_main returns once shutdown_mysqld() has been called (line 115).
mysqld_ReturnAfterShutdown == sqlt.shutdown_req /\ mysqld_Return

\* Scheduling: the main thread keeps running unless it is blocked in a call
\* or suspended by a handler; a handler that has been entered keeps running;
\* every collaborator call returns.  Nothing obliges a signal to arrive or an
\* engine to register.
Fairness ==
    /\ WF_vars(main \/ CleanupComponents("main"))
    /\ \A s \in Signals : WF_vars(CleanupComponents(s))
    /\ WF_vars(mysqld_ReturnAfterShutdown)

FairSpec == Spec /\ Fairness

----
(***************************************************************************)
(* Properties.                                                             *)
(***************************************************************************)

\* C1: in every execution, also when a handler's CleanupComponents overlaps
\* with or follows main's, Substrate.Shutdown, the key-value service Stop,
\* shutdown_mysqld and the join of the relational thread are each invoked at
\* most once.
C1_TeardownAtMostOnce ==
    /\ hist.nShutdown <= 1
    /\ hist.nStop <= 1
    /\ hist.nMysqlShutdown <= 1
    /\ hist.nJoin <= 1

\* The state of the program that a handler can change.
programState == <<pc, hthread, g_shutdown_requested, g_init_state, kvh, sqlt,
                  ds, return_code, exit_status, hist>>

\* C2: whatever the number and order of SIGINT and SIGTERM deliveries, the
\* signal path enters CleanupComponents exactly once: the first delivery wins
\* the compare-and-exchange, every later delivery changes nothing, and
\* g_shutdown_requested never goes back to false.
C2_SignalPathOnce ==
    /\ [](/\ hist.nHandlerCleanup <= 1
          /\ (delivered > 0) <=> (hist.nHandlerCleanup = 1)
          /\ g_shutdown_requested <=> (hist.nHandlerCleanup = 1))
    /\ [][g_shutdown_requested => g_shutdown_requested']_vars
    /\ [][(g_shutdown_requested /\ delivered' > delivered)
             => UNCHANGED programState]_vars

\* C2 witness: a second signal has been delivered and ignored while the
\* first handler is still inside CleanupComponents.
C2_Witness ==
    /\ delivered = 2
    /\ hist.nHandlerCleanup = 1
    /\ \E s \in Signals : HandlerActive(s)

\* C3: CleanupComponents calls Stop on the key-value service only while
\* g_eloqkv_service still owns it, never after release() has handed it to the
\* server options.
C3_StopOnlyWhileOwned == ~hist.stopUnowned

\* The block of CleanupComponents that precedes the block of stage k:
\* 1 DataSubstrate, 2 EloqKV, 3 EloqSQL.
BlockBefore(k) == IF k = 3 /\ ~build.kv THEN 1 ELSE k - 1

\* The last block of CleanupComponents in this build.
LastBlock == IF build.sql THEN 3 ELSE 2

\* Runner r performs a teardown call of some stage in this step.
PerformsStage(r) == hist.lastStage'[r] # hist.lastStage[r]

\* Within each run of CleanupComponents: a stage's call is made only after
\* the blocks of all earlier stages are finished and before its own block
\* and any later block is.
StagesInOrder ==
    [][\A r \in Runners :
          PerformsStage(r) =>
             /\ hist.lastStage[r] < hist.lastStage'[r]
             /\ hist.blocksDone[r] = BlockBefore(hist.lastStage'[r])]_vars

MainCleanupReturned ==
    /\ hist.mainCleanup = "called"
    /\ hist.blocksDone["main"] = LastBlock
    /\ pc["main"] \in {"m288", "done"}

\* C4 as stated: teardown stages run in the order Substrate shutdown,
\* key-value stop, relational stop-and-join, and logging is shut down only
\* after CleanupComponents has returned in main.
C4_FixedOrder_Original ==
    /\ StagesInOrder
    /\ [](hist.nLogShutdown > 0 => MainCleanupReturned)

\* C4 as amended: the same, except that when Substrate.Init fails main shuts
\* logging down and returns without calling CleanupComponents at all.
C4_FixedOrder ==
    /\ StagesInOrder
    /\ [](hist.nLogShutdown > 0 =>
             \/ MainCleanupReturned
             \/ hist.dsInit = "fail" /\ hist.mainCleanup = "no")

\* C4 witness: main's own CleanupComponents has performed all three stages
\* and logging has been shut down after it.
C4_Witness ==
    /\ build.kv /\ build.sql
    /\ hist.nHandlerCleanup = 0
    /\ hist.nShutdown = 1 /\ hist.nStop = 1 /\ hist.nJoin = 1
    /\ hist.nLogShutdown = 1

\* C5: CleanupComponents calls Substrate.Shutdown only if Substrate.Init
\* returned true, the key-value service Stop only if the service's Init
\* returned true, and shutdown_mysqld and join only if the relational thread
\* was launched.
C5_OnlyWhatWasBuilt ==
    /\ hist.nShutdown > 0 => hist.dsInit = "ok"
    /\ hist.nStop > 0 => hist.kvInitOk
    /\ (hist.nMysqlShutdown > 0 \/ hist.nJoin > 0) => sqlt.routine # "none"

\* C5 witness: the key-value Init failed after the substrate and the
\* relational thread were up; cleanup shut the substrate down and joined the
\* thread and did not stop the key-value service.
C5_Witness ==
    /\ hist.failedAt = "kv_init"
    /\ pc["main"] = "done"
    /\ hist.nShutdown = 1 /\ hist.nJoin = 1 /\ hist.nStop = 0

StartupFailures ==
    {"ds_init", "kv_init", "wait", "ds_start", "kv_start", "srv_start"}

\* C6: the process exit status is 0 exactly when no startup step failed and
\* main returned, and is non-zero after every startup-phase failure.
C6_ExitStatus ==
    ~Alive => ((exit_status = <<0>>) <=> (hist.failedAt = "none" /\ ~hist.crashed))

\* C6 witness: full startup, a signal during the run loop, exit status 0.
C6_Witness ==
    /\ exit_status = <<0>>
    /\ hist.srvStartCalled
    /\ g_shutdown_requested
    /\ hist.nStop = 1

\* C7: if Substrate.Init returns false, no engine is enabled, no key-value
\* service or server is constructed or initialised, no relational thread is
\* launched, and the exit status is non-zero.
C7_InitFailureShortCircuits ==
    hist.dsInit = "fail" =>
        /\ ds.enabled = {}
        /\ kvh.server = "null" /\ kvh.svc = "none" /\ ~hist.kvInitOk
        /\ sqlt.routine = "none"
        /\ ~Alive => exit_status # <<0>>

\* C7 witness: Substrate.Init failed and main has returned.
C7_Witness == hist.dsInit = "fail" /\ pc["main"] = "done"

\* Main is at the cleanup label or has passed it.
ReachedCleanupLabel == pc["main"] = "m285" \/ hist.mainCleanup = "called"

\* Every teardown call was made by a run of CleanupComponents.
OnlyCleanupTearsDown ==
    hist.nShutdown + hist.nStop + hist.nMysqlShutdown + hist.nJoin > 0
        => hist.nHandlerCleanup > 0 \/ hist.mainCleanup = "called"

\* C8 as stated: every startup failure, the substrate Init failure included,
\* sets return_code = -1 and goes to the cleanup label.
C8_SingleCleanupPath_Original ==
    /\ hist.failedAt \in StartupFailures =>
           return_code = 0 - 1 /\ ReachedCleanupLabel
    /\ OnlyCleanupTearsDown

\* C8 as amended: every failure after Substrate.Init does so; a failure of
\* Substrate.Init is handled at the call site by shutting logging down and
\* returning -1, without CleanupComponents.
C8_SingleCleanupPath ==
    /\ hist.failedAt \in StartupFailures \ {"ds_init"} =>
           return_code = 0 - 1 /\ ReachedCleanupLabel
    /\ hist.failedAt = "ds_init" =>
           /\ hist.mainCleanup = "no"
           /\ pc["main"] \in {"m148", "done"}
           /\ pc["main"] = "done" => exit_status = << 0 - 1 >>
    /\ OnlyCleanupTearsDown

\* C8 witness: the server failed to start, after every other step succeeded,
\* and main went through the cleanup label.
C8_Witness ==
    /\ hist.failedAt = "srv_start"
    /\ hist.mainCleanup = "called"
    /\ pc["main"] = "done"

\* C9: the key-value second phase (service Start, then server Start) is
\* executed only after Substrate.Start() has returned true.
C9_SecondPhaseAfterStart ==
    /\ hist.kvStartCalled => hist.dsStartOk
    /\ hist.srvStartCalled => hist.kvStartCalled

\* C9 witness: both second-phase calls have been made.
C9_Witness == hist.kvStartCalled /\ hist.srvStartCalled

\* C10: if the relational thread was launched, the process never ends
\* before shutdown_mysqld was called and the thread was joined.
C10_JoinedBeforeExit ==
    (~Alive /\ sqlt.routine # "none") =>
        hist.nMysqlShutdown >= 1 /\ ~sqlt.joinable

\* No startup step has failed and no signal has been delivered.
NoTriggerNoFailure == hist.failedAt = "none" /\ delivered = 0

\* Some teardown call has been made, or main has entered CleanupComponents.
TeardownBegun ==
    \/ hist.mainCleanup = "called"
    \/ hist.nShutdown + hist.nStop + hist.nMysqlShutdown + hist.nJoin > 0

\* C11: in every build (EloqSQL only, EloqKV only, both), when no startup
\* step has failed, main does not enter CleanupComponents and no teardown
\* call (Substrate.Shutdown, service Stop, shutdown_mysqld) is made before a
\* SIGINT or SIGTERM has been delivered.
C11_BlocksUntilTrigger == NoTriggerNoFailure => ~TeardownBegun

\* DataSubstrate::Init has been called (line 146).
SubstrateInitCalled == hist.dsInit # "none"

\* The relational main thread has been started (lines 170-175).
EloqSqlThreadLaunched == sqlt.routine # "none"

\* C12: the initialization order of the file header (lines 4-11) holds: in a
\* build with EloqSQL the MySQL main thread is started before the data
\* substrate is initialised, and the EloqKV server is started last, after the
\* substrate is initialised and the MySQL thread started.
C12_HeaderInitOrder ==
    /\ (build.sql /\ SubstrateInitCalled) => EloqSqlThreadLaunched
    /\ hist.srvStartCalled =>
          /\ hist.dsInit = "ok"
          /\ build.sql => EloqSqlThreadLaunched

\* The last block of CleanupComponents that the signal path has finished
\* (only one handler ever enters CleanupComponents).
HandlerBlocksDone ==
    IF hist.blocksDone["SIGINT"] >= hist.blocksDone["SIGTERM"]
    THEN hist.blocksDone["SIGINT"] ELSE hist.blocksDone["SIGTERM"]

\* This step is a forward startup step of main whose undoing belongs to
\* block k of CleanupComponents: 1 DataSubstrate (lines 151, 231),
\* 2 EloqKV (lines 194-208, 245-258), 3 EloqSQL (lines 170-176).
ForwardStep(k) ==
    CASE k = 1 ->
           \/ ~g_init_state.data_substrate_init
                 /\ g_init_state'.data_substrate_init
           \/ ~hist.dsStartOk /\ hist'.dsStartOk
      [] k = 2 ->
           \/ ~g_init_state.eloqkv_init /\ g_init_state'.eloqkv_init
           \/ g_init_state.eloqkv_service_ptr = "null"
                 /\ g_init_state'.eloqkv_service_ptr # "null"
           \/ kvh.server = "null" /\ kvh'.server # "null"
           \/ kvh.service = "null" /\ kvh'.service # "null"
           \/ ~hist.kvInitOk /\ hist'.kvInitOk
           \/ ~hist.kvStartCalled /\ hist'.kvStartCalled
           \/ ~hist.srvStartCalled /\ hist'.srvStartCalled
      [] OTHER ->
           \/ ~g_init_state.eloqsql_thread_started
                 /\ g_init_state'.eloqsql_thread_started
           \/ sqlt.routine = "none" /\ sqlt'.routine # "none"

\* C13: once the teardown started by a signal has finished a block of
\* CleanupComponents, main performs no forward startup step that this block
\* would have had to undo (setting an InitState flag, constructing, launching
\* or initialising an engine, Substrate.Start, second-phase start).
C13_NoForwardStepAfterTeardown ==
    [][\A k \in 1..3 : HandlerBlocksDone >= k => ~ForwardStep(k)]_vars

\* The lines of main that call EnableEngine (165, 188),
\* WaitForEnabledEnginesRegistered (221) and Start (231) on the substrate.
SubstrateCallLines == {"m165", "m188", "m221", "m231"}

\* In this step main executes one of these calls.
SubstrateCallByMain ==
    pc["main"] \in SubstrateCallLines /\ pc'["main"] # pc["main"]

\* C14: in every execution, also with a signal during startup, EnableEngine,
\* WaitForEnabledEnginesRegistered and Start are never called on the
\* substrate after Shutdown has been called, and Shutdown is never called
\* before Init has returned true.
C14_SubstrateLifecycle ==
    /\ [][hist.nShutdown > 0 => ~SubstrateCallByMain]_vars
    /\ [](hist.nShutdown > 0 => hist.dsInit = "ok")

\* ds.Start() has been called (line 231), whatever it returned.
StartCalled == hist.dsStartOk \/ hist.failedAt = "ds_start"

\* In this step main calls EnableEngine.
EnableEngineCall == ds'.enabled # ds.enabled

\* C15: ds.Start() is called only after WaitForEnabledEnginesRegistered has
\* returned true, that is only when every enabled engine kind has
\* registered; every EnableEngine call is made before the wait begins; and
\* when the wait returns false Start is never called.
C15_StartAfterBarrier ==
    /\ []((pc["main"] = "m231" \/ StartCalled) =>
             /\ DS_AllRegistered(ds)
             /\ hist.failedAt # "wait")
    /\ [][EnableEngineCall =>
             /\ pc["main"] \in {"m165", "m188"}
             /\ pc'["main"] \in {"m170", "m194"}
             /\ ds.state = "Initialized" \/ hist.nShutdown > 0]_vars
    /\ [](hist.failedAt = "wait" => ~StartCalled /\ ds.state # "Running")

\* C15 witness: both engines were enabled and have registered, the wait
\* returned true and ds.Start() was called and returned true.
C15_Witness ==
    /\ ds.enabled = {"EloqSql", "EloqKv"}
    /\ ds.registered = ds.enabled
    /\ hist.dsStartOk
    /\ delivered = 0

\* Main is in the registration wait (line 221).
InRegistrationWait == pc["main"] = "m221"

\* WaitForEnabledEnginesRegistered has returned false (lines 223-225).
WaitReturnedFalse == hist.failedAt = "wait"

\* C16: if main is in the registration wait and an enabled engine never
\* registers, the wait eventually returns false; the process then eventually
\* exits with a non-zero status; at that exit the key-value service has been
\* stopped only if its Init had returned true and the relational thread, if
\* launched, has been joined; and ds.Start() is never called.
C16_RegistrationTimeout ==
    /\ (InRegistrationWait /\ [](~DS_AllRegistered(ds))) ~> WaitReturnedFalse
    /\ WaitReturnedFalse ~> (~Alive /\ exit_status # <<0>>)
    /\ []((~Alive /\ WaitReturnedFalse) =>
             /\ hist.nStop > 0 => hist.kvInitOk
             /\ EloqSqlThreadLaunched => ~sqlt.joinable)
    /\ [](WaitReturnedFalse => ~StartCalled)

InitStateFields ==
    {"data_substrate_init", "eloqkv_init", "eloqsql_thread_started",
     "eloqkv_service_ptr"}

\* Field f of record g is set: a flag is true, the pointer is not null.
IsSet(g, f) ==
    CASE f = "data_substrate_init" -> g.data_substrate_init
      [] f = "eloqkv_init" -> g.eloqkv_init
      [] f = "eloqsql_thread_started" -> g.eloqsql_thread_started
      [] OTHER -> g.eloqkv_service_ptr # "null"

\* This step arms field f of g_init_state.
Arms(f) == ~IsSet(g_init_state, f) /\ IsSet(g_init_state', f)

\* C17: every InitState flag and the tracked service pointer is
\* one-directional: it is armed at most once in an execution, so once
\* CleanupComponents has cleared it, it is never armed again.
C17_FlagsOneDirectional ==
    [][\A f \in InitStateFields : Arms(f) => f \notin hist.armed]_vars

\* The statements of CleanupComponents.
CleanupLabels ==
    {"c87", "c89", "c91", "c96", "c99", "c101", "c105", "c106", "c107",
     "c108", "c113", "c115", "c117", "c119", "c122"}

\* The statements of CleanupComponents outside the three guarded blocks:
\* the tests at lines 87, 96 and 113 and the resets at lines 105-108.
UnguardedLabels == {"c87", "c96", "c105", "c106", "c107", "c108", "c113"}

\* What a finished run of CleanupComponents leaves behind: every flag false,
\* the tracked pointer and both unique_ptrs null.
Cleared ==
    /\ g_init_state = InitState
    /\ kvh.service = "null"
    /\ kvh.server = "null"

\* Runner r executes a statement of CleanupComponents in this step.
CleanupStepBy(r) == pc[r] \in CleanupLabels /\ pc'[r] # pc[r]

\* In this step r finishes a run of CleanupComponents during which no startup
\* step was taken: main's own run, or a handler's on the main thread.
FinishesSequentialRun(r) ==
    /\ CleanupStepBy(r)
    /\ pc'[r] = CleanupReturn(r)
    /\ r = "main" \/ hthread[r] = "main"

\* Runner r is in a run of CleanupComponents that follows a finished run of
\* the other caller with no startup step in between, and has made no
\* teardown call in it.
InSecondRun(r) ==
    /\ pc[r] \in UnguardedLabels
    /\ hist.lastStage[r] = 0
    /\ Cleared
    /\ \E q \in Runners \ {r} : hist.blocksDone[q] = LastBlock

\* The step calls no collaborator and leaves InitState and the handles alone.
NoTeardownEffect ==
    /\ UNCHANGED <<g_init_state, kvh, sqlt, ds>>
    /\ hist'.nShutdown = hist.nShutdown
    /\ hist'.nStop = hist.nStop
    /\ hist'.nMysqlShutdown = hist.nMysqlShutdown
    /\ hist'.nJoin = hist.nJoin

\* C18: CleanupComponents is idempotent when run sequentially: a run with no
\* startup step inside it ends with every InitState field cleared and both
\* handles reset, and a run that follows it with no startup step in between
\* enters none of the guarded blocks, calls no collaborator (Shutdown, Stop,
\* shutdown_mysqld, join) and leaves InitState and the handles unchanged.
C18_SequentialIdempotence ==
    [][\A r \in Runners :
          /\ FinishesSequentialRun(r) => Cleared'
          /\ (InSecondRun(r) /\ CleanupStepBy(r)) =>
                /\ NoTeardownEffect
                /\ pc'[r] \in UnguardedLabels \cup {CleanupReturn(r)}]_vars

\* C18 witness: after a full startup of both engines a handler ran
\* CleanupComponents through all three stages, and main's own run, the
\* second, has passed every test without a teardown call.
C18_Witness ==
    /\ hist.srvStartCalled /\ build.sql
    /\ hist.nShutdown = 1 /\ hist.nStop = 1 /\ hist.nJoin = 1
    /\ hist.lastStage["main"] = 0
    /\ hist.blocksDone["main"] = LastBlock
    /\ pc["main"] = "m288"

\* Main executes the statement at label l in this step and goes on.
MainExecutes(l) == pc["main"] = l /\ pc'["main"] # l

\* The key-value handles that the statement at label l uses are intact: the
\* unique_ptr it dereferences is not null, the object behind the raw pointer
\* it calls through or stores has not been destroyed.
HandlesIntact(l) ==
    CASE l = "m202" -> KvInitDefined
      [] l = "m245" -> KvStartDefined
      [] l \in {"m258", "m269", "m280"} -> kvh.server # "null"
      [] l \in {"m208", "m253"} ->
             kvh.local_ptr # "null" => kvh.svc = "alive"
      [] l = "c99" -> KvStopDefined
      [] OTHER -> TRUE

\* The statements of main, and of CleanupComponents called by main, that use
\* a key-value handle.
HandleUses == {"m202", "m208", "m245", "m253", "m258", "m269", "m280", "c99"}

\* C19: main never uses a key-value handle after teardown has released it:
\* it calls Init, Start and Stop only on a live service, dereferences
\* g_eloqkv_server only while it is not null, and never stores a pointer to
\* a destroyed service in g_init_state.eloqkv_service_ptr.
C19_NoUseAfterReset ==
    [][\A l \in HandleUses : MainExecutes(l) => HandlesIntact(l)]_vars

\* Main is blocked in RunUntilAskedToQuit (line 280) with
\* g_shutdown_requested already set and no handler running: SignalHandler
\* returns at line 72 for every further signal.
BlockedAfterTrigger ==
    /\ Alive
    /\ pc["main"] = "m280"
    /\ kvh.server # "null"
    /\ ~quit_asked
    /\ g_shutdown_requested
    /\ \A s \in Signals : ~HandlerActive(s)

\* C20: a shutdown trigger is never lost: under fair scheduling, with every
\* collaborator call returning, once a SIGINT or SIGTERM has been delivered
\* (at any point after line 140, also during startup before the key-value
\* server exists) the process eventually ends, and no execution stays
\* forever with main blocked in RunUntilAskedToQuit while the shutdown flag
\* is already set.
C20_TriggerNeverLost ==
    /\ (delivered > 0) ~> ~Alive
    /\ []<>(~BlockedAfterTrigger)

====
